---- MODULE Spec2Model ----
(***************************************************************************)
(* minitorch/operators.py: the scalar prelude and the higher-order          *)
(* combinators map, zipWith and reduce, with the wrappers built on them.    *)
(*                                                                          *)
(* A Python scalar is a record [k, m, e]:                                   *)
(*   k = "num"   the finite number m * 10^e (m has no trailing zero),       *)
(*   k = "bool"  True (m = 1) or False (m = 0),                             *)
(*   k = "inf"   +inf (m = 1) or -inf (m = -1),                             *)
(*   k = "nan"   not-a-number,                                              *)
(*   k = "ln"    the natural logarithm of m * 10^e, as math.log returns it, *)
(*   k = "none"  no value (the value slot of a raised exception).           *)
(* Finite numbers keep the range of a Python float: a result beyond the     *)
(* largest double is +-inf (or OverflowError where Python raises it), one   *)
(* below the smallest subnormal is 0.  The inputs the specifications draw   *)
(* are decimals whose results are exact.                                    *)
(*                                                                          *)
(* A call of a function ends in an outcome [exc, v]: exc = "" and the       *)
(* value v, or the name of the exception raised.                            *)
(***************************************************************************)
EXTENDS Integers, Sequences, FiniteSets, TLC

\* ------------------------------------------------------------------ bounds
\* Longest sequence handed to a combinator in SpecComb.
MaxLen == 2

\* Longest sequence handed to a closure in SpecClos.
MaxLenC == 1

\* ------------------------------------------------------- float range
\* The largest finite double is about 1.8 * 10^308.
DBL_MAX_10_EXP == 308

\* The smallest subnormal double is about 4.9 * 10^-324.
DBL_TRUE_MIN_10_EXP == -324

\* A double carries at most 17 significant decimal digits.
DBL_DECIMAL_DIG == 17

\* ------------------------------------------------------------ values
Abs(n) == IF n < 0 THEN -n ELSE n

Sgn(n) == IF n < 0 THEN -1 ELSE IF n = 0 THEN 0 ELSE 1

Min2(a, b) == IF a < b THEN a ELSE b

RECURSIVE Pow10(_)
Pow10(k) == IF k <= 0 THEN 1 ELSE 10 * Pow10(k - 1)

RECURSIVE Digits(_)
Digits(n) == IF n < 10 THEN 1 ELSE 1 + Digits(n \div 10)

Val(k, m, e) == [k |-> k, m |-> m, e |-> e]

None == Val("none", 0, 0)

NaN == Val("nan", 0, 0)

Inf(s) == Val("inf", s, 0)

Zero == Val("num", 0, 0)

True == Val("bool", 1, 0)

False == Val("bool", 0, 0)

Bool(b) == IF b THEN True ELSE False

\* m * 10^e with the trailing zeros of m moved into e.
RECURSIVE Strip(_, _)
Strip(m, e) ==
    IF m = 0 THEN Zero
    ELSE IF m % 10 = 0 THEN Strip(m \div 10, e + 1)
    ELSE Val("num", m, e)

\* The decimal exponent of a finite nonzero number: 10^Order <= |v| < 10^(Order+1).
Order(v) == v.e + Digits(Abs(v.m)) - 1

\* The float holding m * 10^e: out of range above is +-inf, below is 0.
Fin(m, e) ==
    LET n == Strip(m, e)
    IN  IF n.m = 0 THEN Zero
        ELSE IF Order(n) > DBL_MAX_10_EXP THEN Inf(Sgn(n.m))
        ELSE IF Order(n) < DBL_TRUE_MIN_10_EXP THEN Zero
        ELSE n

PyInt(n) == Fin(n, 0)

\* A bool used in arithmetic is the integer 1 or 0.
ToNum(v) == IF v.k = "bool" THEN Val("num", v.m, 0) ELSE v

Ok(v) == [v |-> v, exc |-> ""]

Raise(x) == [v |-> None, exc |-> x]

\* ------------------------------------------- Python's arithmetic
\* |x| < |y| for finite nonzero x, y.
MagLess(x, y) ==
    IF Order(x) # Order(y) THEN Order(x) < Order(y)
    ELSE LET e == Min2(x.e, y.e)
         IN  Abs(x.m) * Pow10(x.e - e) < Abs(y.m) * Pow10(y.e - e)

FinLess(x, y) ==
    IF Sgn(x.m) # Sgn(y.m) THEN Sgn(x.m) < Sgn(y.m)
    ELSE IF x.m = 0 THEN FALSE
    ELSE IF x.m > 0 THEN MagLess(x, y)
    ELSE MagLess(y, x)

\* x < y
PyLt(x, y) ==
    IF x.k = "nan" \/ y.k = "nan" THEN FALSE
    ELSE IF x.k = "inf" THEN x.m = -1 /\ ~(y.k = "inf" /\ y.m = -1)
    ELSE IF y.k = "inf" THEN y.m = 1
    ELSE FinLess(ToNum(x), ToNum(y))

\* x > y
PyGt(x, y) == PyLt(y, x)

\* x == y
PyEq(x, y) ==
    IF x.k = "nan" \/ y.k = "nan" THEN FALSE
    ELSE ToNum(x) = ToNum(y)

\* x + y of finite numbers; an operand below the last digit of the other is absorbed.
AddFin(x, y) ==
    IF x.m = 0 THEN y
    ELSE IF y.m = 0 THEN x
    ELSE IF Order(x) - Order(y) > DBL_DECIMAL_DIG THEN x
    ELSE IF Order(y) - Order(x) > DBL_DECIMAL_DIG THEN y
    ELSE LET e == Min2(x.e, y.e)
         IN  Fin(x.m * Pow10(x.e - e) + y.m * Pow10(y.e - e), e)

\* x + y
PyAdd(x, y) ==
    IF x.k = "nan" \/ y.k = "nan" THEN NaN
    ELSE IF x.k = "inf" THEN (IF y.k = "inf" /\ y.m # x.m THEN NaN ELSE x)
    ELSE IF y.k = "inf" THEN y
    ELSE AddFin(ToNum(x), ToNum(y))

\* x * y
PyMul(x, y) ==
    IF x.k = "nan" \/ y.k = "nan" THEN NaN
    ELSE IF x.k = "inf" \/ y.k = "inf"
         THEN (IF x.m = 0 \/ y.m = 0 THEN NaN ELSE Inf(Sgn(x.m) * Sgn(y.m)))
    ELSE Fin(x.m * y.m, x.e + y.e)

\* -x
PyNeg(x) ==
    IF x.k = "nan" THEN NaN
    ELSE IF x.k = "inf" THEN Inf(-x.m)
    ELSE Fin(-x.m, x.e)

\* The reciprocal of a finite nonzero number whose decimal expansion ends.
Recip(x) ==
    LET a == Abs(x.m)
        K == {k \in 0..(4 * Digits(a)) : Pow10(k) % a = 0}
        k == CHOOSE j \in K : \A i \in K : j <= i
    IN  Fin(Sgn(x.m) * (Pow10(k) \div a), (-k) - x.e)

\* 1 / x
PyDiv1(x) ==
    IF x.k = "nan" THEN Ok(NaN)
    ELSE IF x.k = "inf" THEN Ok(Zero)
    ELSE IF x.m = 0 THEN Raise("ZeroDivisionError")
    ELSE Ok(Recip(ToNum(x)))

\* x ** 2
PyPow2(x) ==
    IF x.k = "nan" THEN Ok(NaN)
    ELSE IF x.k = "inf" THEN Ok(Inf(1))
    ELSE IF x.m = 0 THEN Ok(Zero)
    ELSE IF Order(Strip(x.m * x.m, 2 * x.e)) > DBL_MAX_10_EXP
         THEN Raise("OverflowError")
    ELSE Ok(Fin(x.m * x.m, 2 * x.e))

\* math.log(x)
MathLog(x) ==
    IF x.k = "nan" THEN Ok(NaN)
    ELSE IF x.k = "inf" THEN (IF x.m = 1 THEN Ok(Inf(1)) ELSE Raise("ValueError"))
    ELSE IF x.m <= 0 THEN Raise("ValueError")
    ELSE IF x.m = 1 /\ x.e = 0 THEN Ok(Zero)
    ELSE Ok(Val("ln", x.m, x.e))

\* ------------------------------------------- the scalar operators
mul(x, y) == Ok(PyMul(x, y))

id(x) == Ok(x)

add(x, y) == Ok(PyAdd(x, y))

neg(x) == Ok(PyNeg(x))

lt(x, y) == Ok(Bool(PyLt(x, y)))

eq(x, y) == Ok(Bool(PyEq(x, y)))

\* max with the comparison turned into >=: a tie gives x.
maxTieFirst(x, y) == Ok(IF ~PyLt(x, y) THEN x ELSE y)

max(x, y) == Ok(IF PyGt(x, y) THEN x ELSE y)

relu(x) == max(x, PyInt(0))

EPS == Val("num", 1, -6)

\* log without the EPS shift.
logNoEps(x) == MathLog(x)

log(x) == MathLog(PyAdd(x, EPS))

inv(x) == PyDiv1(x)

log_back(x, d) ==
    LET r == inv(x)
    IN  IF r.exc # "" THEN r ELSE Ok(PyMul(r.v, d))

inv_back(x, d) ==
    LET r == inv(x)
        p == PyPow2(r.v)
    IN  IF r.exc # "" THEN r
        ELSE IF p.exc # "" THEN p
        ELSE Ok(PyMul(PyNeg(p.v), d))

relu_back(x, d) == Ok(IF PyGt(x, PyInt(0)) THEN d ELSE PyInt(0))

\* ------------------------------------------------------------- state
VARIABLES
    scalar,   \* the last call of a scalar operator: [op, x, y, out]
    cells,    \* the closures map, zipWith and reduce returned: [kind, fn, start]
    frames    \* the activations of the closures' apply, one record per caller

vars == <<scalar, cells, frames>>

\* ------------------------------------------------------------- inputs
\* Arguments of the comparisons.
CmpDom ==
    {PyInt(-1), PyInt(0), PyInt(1), PyInt(2), Val("num", 5, -1),
     True, False, Inf(1), Inf(-1), NaN}

\* Arguments x of relu, log, inv and the *_back helpers.
XDom ==
    {Inf(-1), PyInt(-1), Val("num", -2, -6), Val("num", -1, -6), Val("num", -5, -7),
     PyInt(0), False, True, PyInt(1), PyInt(2), PyInt(4), Val("num", 5, -1),
     Val("num", 1, -200), Val("num", -1, -200), Val("num", 1, -320),
     Val("num", 1, 200), Inf(1), NaN}

\* Arguments d of the *_back helpers.
DDom == {PyInt(-1), PyInt(0), PyInt(1), PyInt(2), Val("num", 1, 200)}

\* ------------------------------------------- calls of the scalar layer
NoCall == [x |-> None, y |-> None, op |-> "", out |-> Ok(None)]

Called(op, x, y, out) == [x |-> x, y |-> y, op |-> op, out |-> out]

CallLt ==
    /\ \E x \in CmpDom, y \in CmpDom : scalar' = Called("lt", x, y, lt(x, y))
    /\ UNCHANGED <<cells, frames>>

CallEq ==
    /\ \E x \in CmpDom, y \in CmpDom : scalar' = Called("eq", x, y, eq(x, y))
    /\ UNCHANGED <<cells, frames>>

CallMax ==
    /\ \E x \in CmpDom, y \in CmpDom : scalar' = Called("max", x, y, max(x, y))
    /\ UNCHANGED <<cells, frames>>

CallRelu ==
    /\ \E x \in XDom : scalar' = Called("relu", x, None, relu(x))
    /\ UNCHANGED <<cells, frames>>

CallLog ==
    /\ \E x \in XDom : scalar' = Called("log", x, None, log(x))
    /\ UNCHANGED <<cells, frames>>

CallInv ==
    /\ \E x \in XDom : scalar' = Called("inv", x, None, inv(x))
    /\ UNCHANGED <<cells, frames>>

CallLogBack ==
    /\ \E x \in XDom, d \in DDom : scalar' = Called("log_back", x, d, log_back(x, d))
    /\ UNCHANGED <<cells, frames>>

CallInvBack ==
    /\ \E x \in XDom, d \in DDom : scalar' = Called("inv_back", x, d, inv_back(x, d))
    /\ UNCHANGED <<cells, frames>>

CallReluBack ==
    /\ \E x \in XDom, d \in DDom : scalar' = Called("relu_back", x, d, relu_back(x, d))
    /\ UNCHANGED <<cells, frames>>

\* ------------------------------------------- the captured functions
\* fn(x), for the one-argument functions handed to map.
Apply1(fn, x) ==
    CASE fn = "neg" -> neg(x)
      [] fn = "id" -> id(x)
      [] fn = "relu" -> relu(x)
      [] fn = "inv" -> inv(x)

\* fn(x, y), for the two-argument functions handed to zipWith and reduce.
Apply2(fn, x, y) ==
    CASE fn = "add" -> add(x, y)
      [] fn = "mul" -> mul(x, y)
      [] fn = "max" -> max(x, y)
      [] fn = "lt" -> lt(x, y)
      [] fn = "relu_back" -> relu_back(x, y)
      [] fn = "log_back" -> log_back(x, y)
      [] fn = "inv_back" -> inv_back(x, y)

\* ------------------------------------------- closures and activations
NoCell == [fn |-> "", kind |-> "", start |-> None]

Closure(kind, fn, start) == [fn |-> fn, kind |-> kind, start |-> start]

NoFrame ==
    [exc |-> "", i |-> 0, st |-> "free", via |-> "", c |-> "", l1 |-> <<>>,
     l2 |-> <<>>, a0 |-> <<>>, b0 |-> <<>>, ret |-> <<>>, ori |-> None,
     ncalls |-> 0, outSeq |-> <<>>, outVal |-> None]

\* apply is entered: map and zipWith start from ret = [], reduce from ori = start.
Enter(via, c, cell, l1, l2) ==
    [NoFrame EXCEPT !.st = "loop", !.via = via, !.c = c,
                    !.l1 = l1, !.l2 = l2, !.a0 = l1, !.b0 = l2,
                    !.ori = IF cell.kind = "reduce" THEN cell.start ELSE None]

\* fn's exception caught in the loop and the element skipped.
UnwindSwallowed(fr, exc) == [fr EXCEPT !.i = @ + 1, !.ncalls = @ + 1]

\* fn raised: the exception leaves apply, whose locals die with it.
Unwind(fr, exc) ==
    [fr EXCEPT !.st = "raised", !.exc = exc, !.ncalls = @ + 1,
               !.ret = <<>>, !.ori = None]

\* map writing fn(x) back into its argument as well.
mapStepInPlace(fr, fn) ==
    LET r == Apply1(fn, fr.l1[fr.i + 1])
    IN  IF r.exc # "" THEN [fr EXCEPT !.st = "raised", !.exc = r.exc, !.ncalls = @ + 1,
                                      !.ret = <<>>, !.ori = None]
        ELSE [fr EXCEPT !.i = @ + 1, !.ncalls = @ + 1, !.ret = Append(@, r.v),
                        !.l1[fr.i + 1] = r.v]

\* One turn of map's loop: ret.append(fn(x)).
mapStep(fr, fn) ==
    LET r == Apply1(fn, fr.l1[fr.i + 1])
    IN  IF r.exc # "" THEN Unwind(fr, r.exc)
        ELSE [fr EXCEPT !.i = @ + 1, !.ncalls = @ + 1, !.ret = Append(@, r.v)]

\* One turn of zipWith's loop: ret.append(fn(x, y)).
zipWithStep(fr, fn) ==
    LET r == Apply2(fn, fr.l1[fr.i + 1], fr.l2[fr.i + 1])
    IN  IF r.exc # "" THEN Unwind(fr, r.exc)
        ELSE [fr EXCEPT !.i = @ + 1, !.ncalls = @ + 1, !.ret = Append(@, r.v)]

\* reduce calling fn(ori, w): the accumulator first.
reduceStepSwapped(fr, fn) ==
    LET r == Apply2(fn, fr.ori, fr.l1[fr.i + 1])
    IN  IF r.exc # "" THEN [fr EXCEPT !.st = "raised", !.exc = r.exc, !.ncalls = @ + 1,
                                      !.ret = <<>>, !.ori = None]
        ELSE [fr EXCEPT !.i = @ + 1, !.ncalls = @ + 1, !.ori = r.v]

\* One turn of reduce's loop: ori = fn(w, ori).
reduceStep(fr, fn) ==
    LET r == Apply2(fn, fr.l1[fr.i + 1], fr.ori)
    IN  IF r.exc # "" THEN Unwind(fr, r.exc)
        ELSE [fr EXCEPT !.i = @ + 1, !.ncalls = @ + 1, !.ori = r.v]

\* A zip that pairs nothing unless the lists are equally long.
HasNextStrict(fr, kind) ==
    IF kind = "zipWith" THEN Len(fr.l1) = Len(fr.l2) /\ fr.i < Len(fr.l1)
    ELSE fr.i < Len(fr.l1)

\* Whether the for loop has another element: zip stops with the shorter list.
HasNext(fr, kind) ==
    IF kind = "zipWith" THEN fr.i < Len(fr.l1) /\ fr.i < Len(fr.l2)
    ELSE fr.i < Len(fr.l1)

\* return ret / return ori.
Returned(fr, kind) ==
    [fr EXCEPT !.st = "returned",
               !.outSeq = IF kind = "reduce" THEN <<>> ELSE fr.ret,
               !.outVal = IF kind = "reduce" THEN fr.ori ELSE None]

\* reduce folding into its captured start (nonlocal start) instead of a local.
CapturedAccumulates(cell, fr) ==
    IF cell.kind = "reduce" /\ fr.st = "loop" THEN [cell EXCEPT !.start = fr.ori]
    ELSE cell

\* The closure after a turn of its apply: apply assigns to its locals only.
Captured(cell, fr) == cell

\* ------------------------------------------- the combinators
\* map(fn), zipWith(fn), reduce(fn, start): a closure over the arguments.
map(c, fn) ==
    /\ cells[c].kind = ""
    /\ cells' = [cells EXCEPT ![c] = Closure("map", fn, None)]
    /\ UNCHANGED <<scalar, frames>>

zipWith(c, fn) ==
    /\ cells[c].kind = ""
    /\ cells' = [cells EXCEPT ![c] = Closure("zipWith", fn, None)]
    /\ UNCHANGED <<scalar, frames>>

reduce(c, fn, start) ==
    /\ cells[c].kind = ""
    /\ cells' = [cells EXCEPT ![c] = Closure("reduce", fn, start)]
    /\ UNCHANGED <<scalar, frames>>

\* The caller invokes closure c on its lists (l2 is used by zipWith only).
Call(f, c, l1, l2) ==
    /\ frames[f].st = "free"
    /\ cells[c].kind # ""
    /\ cells[c].kind # "zipWith" => l2 = <<>>
    /\ frames' = [frames EXCEPT ![f] = Enter("apply", c, cells[c], l1, l2)]
    /\ UNCHANGED <<scalar, cells>>

\* The loop of activation f takes its next element.
Step(f) ==
    LET fr == frames[f]
        cell == cells[fr.c]
        nx == CASE cell.kind = "map" -> mapStep(fr, cell.fn)
                [] cell.kind = "zipWith" -> zipWithStep(fr, cell.fn)
                [] cell.kind = "reduce" -> reduceStep(fr, cell.fn)
    IN  /\ fr.st = "loop"
        /\ HasNext(fr, cell.kind)
        /\ frames' = [frames EXCEPT ![f] = nx]
        /\ cells' = [cells EXCEPT ![fr.c] = Captured(cell, nx)]
        /\ UNCHANGED scalar

\* The loop of activation f is exhausted and apply returns.
Return(f) ==
    LET fr == frames[f]
    IN  /\ fr.st = "loop"
        /\ ~HasNext(fr, cells[fr.c].kind)
        /\ frames' = [frames EXCEPT ![f] = Returned(fr, cells[fr.c].kind)]
        /\ UNCHANGED <<scalar, cells>>

\* The caller has taken the result (or the exception); a wrapper's closure was
\* its local fn and goes with it.
Release(f) ==
    LET fr == frames[f]
    IN  /\ fr.st \in {"returned", "raised"}
        /\ frames' = [frames EXCEPT ![f] = NoFrame]
        /\ cells' = IF fr.via = "apply" THEN cells
                    ELSE [cells EXCEPT ![fr.c] = NoCell]
        /\ UNCHANGED scalar

\* The caller drops a closure no activation is running.
Drop(c) ==
    /\ cells[c].kind # ""
    /\ \A f \in DOMAIN frames : frames[f].c # c
    /\ cells' = [cells EXCEPT ![c] = NoCell]
    /\ UNCHANGED <<scalar, frames>>

\* ------------------------------------------- the wrappers
Wrapped(via, f, c, cell, l1, l2) ==
    /\ frames[f].st = "free"
    /\ cells[c].kind = ""
    /\ cells' = [cells EXCEPT ![c] = cell]
    /\ frames' = [frames EXCEPT ![f] = Enter(via, c, cell, l1, l2)]
    /\ UNCHANGED scalar

negList(f, c, ls) == Wrapped("negList", f, c, Closure("map", "neg", None), ls, <<>>)

addLists(f, c, ls1, ls2) ==
    Wrapped("addLists", f, c, Closure("zipWith", "add", None), ls1, ls2)

\* prod folding from 0.
prodFromZero(f, c, ls) ==
    Wrapped("prod", f, c, Closure("reduce", "mul", PyInt(0)), ls, <<>>)

sum(f, c, ls) == Wrapped("sum", f, c, Closure("reduce", "add", PyInt(0)), ls, <<>>)

prod(f, c, ls) == Wrapped("prod", f, c, Closure("reduce", "mul", PyInt(1)), ls, <<>>)

\* ------------------------------------------- specifications
FrameIds == {"a", "b"}

CellIds == {"c1", "c2"}

SeqsUpTo(D, n) == UNION {[1..k -> D] : k \in 0..n}

\* The second argument's choices: closure c takes one only when it is a zipWith.
Second(c, L) == IF cells[c].kind = "zipWith" THEN L ELSE {<<>>}

Init ==
    /\ scalar = NoCall
    /\ cells = [c \in CellIds |-> NoCell]
    /\ frames = [f \in FrameIds |-> NoFrame]

\* The scalar layer: every operator on every argument of its domain.
NextScalar ==
    \/ CallLt
    \/ CallEq
    \/ CallMax
    \/ CallRelu
    \/ CallLog
    \/ CallInv
    \/ CallLogBack
    \/ CallInvBack
    \/ CallReluBack

SpecScalar == Init /\ [][NextScalar]_vars

\* The combinators, one caller and one closure at a time.
ElemDom == {PyInt(-1), PyInt(0), PyInt(1), PyInt(2)}

Lists == SeqsUpTo(ElemDom, MaxLen)

Fn1 == {"neg", "id", "relu", "inv"}

Fn2 == {"add", "mul", "max", "lt", "relu_back", "log_back"}

Starts == {PyInt(0), PyInt(1), PyInt(2)}

MakeMap == \E fn \in Fn1 : map("c1", fn)

MakeZipWith == \E fn \in Fn2 : zipWith("c1", fn)

MakeReduce == \E fn \in Fn2, s \in Starts : reduce("c1", fn, s)

CallApply ==
    /\ frames["a"].st = "free"
    /\ \E l1 \in Lists, l2 \in Second("c1", Lists) : Call("a", "c1", l1, l2)

StepApply == Step("a")

ReturnApply == Return("a")

ReleaseApply == Release("a")

DropClosure == Drop("c1")

CallNegList == frames["a"].st = "free" /\ \E ls \in Lists : negList("a", "c1", ls)

CallAddLists ==
    /\ frames["a"].st = "free"
    /\ cells["c1"].kind = ""
    /\ \E ls1 \in Lists, ls2 \in Lists : addLists("a", "c1", ls1, ls2)

CallSum == frames["a"].st = "free" /\ \E ls \in Lists : sum("a", "c1", ls)

CallProd == frames["a"].st = "free" /\ \E ls \in Lists : prod("a", "c1", ls)

NextComb ==
    \/ MakeMap
    \/ MakeZipWith
    \/ MakeReduce
    \/ CallApply
    \/ StepApply
    \/ ReturnApply
    \/ ReleaseApply
    \/ DropClosure
    \/ CallNegList
    \/ CallAddLists
    \/ CallSum
    \/ CallProd

SpecComb == Init /\ [][NextComb]_vars

\* Two callers and two closures, their calls interleaved turn by turn.
ElemDomC == {PyInt(0), PyInt(2)}

ListsC == SeqsUpTo(ElemDomC, MaxLenC)

Fn1C == {"neg", "inv"}

Fn2C == {"add", "log_back"}

StartsC == {PyInt(1)}

MakeMapC == \E c \in CellIds, fn \in Fn1C : map(c, fn)

MakeZipWithC == \E c \in CellIds, fn \in Fn2C : zipWith(c, fn)

MakeReduceC == \E c \in CellIds, fn \in Fn2C, s \in StartsC : reduce(c, fn, s)

CallC ==
    \E f \in FrameIds, c \in CellIds :
        /\ frames[f].st = "free"
        /\ \E l1 \in ListsC, l2 \in Second(c, ListsC) : Call(f, c, l1, l2)

StepC == \E f \in FrameIds : Step(f)

ReturnC == \E f \in FrameIds : Return(f)

ReleaseC == \E f \in FrameIds : Release(f)

DropC == \E c \in CellIds : Drop(c)

NextClos ==
    \/ MakeMapC
    \/ MakeZipWithC
    \/ MakeReduceC
    \/ CallC
    \/ StepC
    \/ ReturnC
    \/ ReleaseC
    \/ DropC

SpecClos == Init /\ [][NextClos]_vars

\* ------------------------------------------- what the calls should yield
\* fn(x_n, fn(x_(n-1), ... fn(x_1, s0))), the fold the documentation writes out.
RECURSIVE Nest(_, _, _, _)
Nest(fn, s0, s, n) ==
    IF n = 0 THEN Ok(s0)
    ELSE LET p == Nest(fn, s0, s, n - 1)
         IN  IF p.exc # "" THEN p ELSE Apply2(fn, s[n], p.v)

\* The outcome of the k-th call of the captured fn in a call of closure cell on (a, b).
KthCall(cell, a, b, k) ==
    CASE cell.kind = "map" -> Apply1(cell.fn, a[k])
      [] cell.kind = "zipWith" -> Apply2(cell.fn, a[k], b[k])
      [] cell.kind = "reduce" -> Nest(cell.fn, cell.start, a, k)

\* The number of elements a call of closure cell on (a, b) has to process.
Todo(cell, a, b) == IF cell.kind = "zipWith" THEN Min2(Len(a), Len(b)) ELSE Len(a)

\* The sum and the product of a sequence of integers.
IntOf(v) == v.m * Pow10(v.e)

RECURSIVE IntSum(_)
IntSum(s) == IF s = <<>> THEN 0 ELSE IntOf(Head(s)) + IntSum(Tail(s))

RECURSIVE IntProd(_)
IntProd(s) == IF s = <<>> THEN 1 ELSE IntOf(Head(s)) * IntProd(Tail(s))

Finished(fr) == fr.st \in {"returned", "raised"}

\* What the caller of an activation receives.
Outcome(fr) == <<fr.st, fr.exc, fr.outSeq, fr.outVal>>

\* What a call of closure cell on (a, b) is to hand back, from the captured fn
\* and start and the arguments alone.
Denote(cell, a, b) ==
    LET n == Todo(cell, a, b)
        bad == {k \in 1..n : KthCall(cell, a, b, k).exc # ""}
        k0 == CHOOSE k \in bad : \A j \in bad : k <= j
    IN  IF bad # {} THEN <<"raised", KthCall(cell, a, b, k0).exc, <<>>, None>>
        ELSE IF cell.kind = "reduce"
             THEN <<"returned", "", <<>>, Nest(cell.fn, cell.start, a, n).v>>
        ELSE <<"returned", "", [k \in 1..n |-> KthCall(cell, a, b, k).v], None>>

NegEps == Val("num", -1, -6)

\* x <= -EPS, as numbers.
LeNegEps(x) == x.k # "nan" /\ ~PyLt(NegEps, x)

IsZero(x) == x.k \in {"num", "bool"} /\ x.m = 0

\* ------------------------------------------- claims
\* C1: a call of reduce(fn, s0) on [x1..xn] hands back fn(xn, fn(x(n-1), ...
\* fn(x1, s0))): the elements first to last, the element as fn's first argument
\* and the accumulator as its second; on the empty sequence it hands back s0 and
\* never calls fn.
C1_ReduceNest ==
    \A f \in FrameIds :
        LET fr == frames[f]
            cell == cells[fr.c]
            want == Nest(cell.fn, cell.start, fr.a0, Len(fr.a0))
        IN  (Finished(fr) /\ cell.kind = "reduce") =>
                /\ fr.exc = want.exc
                /\ fr.outVal = want.v
                /\ fr.st = "returned" => fr.ncalls = Len(fr.a0)
                /\ fr.a0 = <<>> =>
                       fr.st = "returned" /\ fr.outVal = cell.start /\ fr.ncalls = 0

\* C1 witness: a two-element reduce of the non-commutative log_back has returned
\* a value that fn with its arguments swapped would not give.
C1_Witness ==
    LET fr == frames["a"]
    IN  /\ fr.st = "returned"
        /\ cells[fr.c].kind = "reduce"
        /\ cells[fr.c].fn = "log_back"
        /\ Len(fr.a0) = 2
        /\ fr.outVal = Val("num", 5, -1)

\* C2: a call of zipWith(fn) on (a, b) hands back r with len(r) = min(len(a),
\* len(b)) and r[i] = fn(a[i], b[i]); unequal lengths truncate and raise nothing
\* (an exception comes from fn alone).
C2_ZipWithTruncates ==
    \A f \in FrameIds :
        LET fr == frames[f]
            cell == cells[fr.c]
            n == Min2(Len(fr.a0), Len(fr.b0))
        IN  (Finished(fr) /\ cell.kind = "zipWith") =>
                /\ fr.st = "returned" =>
                       /\ Len(fr.outSeq) = n
                       /\ \A i \in 1..n :
                              Ok(fr.outSeq[i]) = Apply2(cell.fn, fr.a0[i], fr.b0[i])
                /\ fr.st = "raised" =>
                       \E i \in 1..n : Apply2(cell.fn, fr.a0[i], fr.b0[i]).exc = fr.exc

\* C2 witness: zipWith has returned a non-empty list for lists of unequal length.
C2_Witness ==
    LET fr == frames["a"]
    IN  /\ fr.st = "returned"
        /\ cells[fr.c].kind = "zipWith"
        /\ Len(fr.a0) # Len(fr.b0)
        /\ Len(fr.outSeq) = 1

\* C3: a call of map(fn) on s hands back a new list r with len(r) = len(s) and
\* r[i] = fn(s[i]) in the order of s, and s is as it was; map(fn)([]) = [].
C3_MapElementwise ==
    \A f \in FrameIds :
        LET fr == frames[f]
            cell == cells[fr.c]
        IN  (fr.st # "free" /\ cell.kind = "map") =>
                /\ fr.l1 = fr.a0
                /\ fr.st = "returned" =>
                       /\ Len(fr.outSeq) = Len(fr.a0)
                       /\ \A i \in 1..Len(fr.a0) :
                              Ok(fr.outSeq[i]) = Apply1(cell.fn, fr.a0[i])

\* C3 witness: map(neg) has returned for a list of two different elements.
C3_Witness ==
    LET fr == frames["a"]
    IN  /\ fr.st = "returned"
        /\ cells[fr.c].kind = "map"
        /\ cells[fr.c].fn = "neg"
        /\ fr.a0 = <<PyInt(1), PyInt(2)>>
        /\ fr.outSeq = <<PyInt(-1), PyInt(-2)>>

\* C4: sum(s) is reduce(add, 0)(s) and the arithmetic sum of s, prod(s) is
\* reduce(mul, 1)(s) and the arithmetic product of s; sum([]) = 0, prod([]) = 1.
C4_SumProd ==
    \A f \in FrameIds :
        LET fr == frames[f]
        IN  /\ (Finished(fr) /\ fr.via = "sum") =>
                   /\ fr.st = "returned"
                   /\ Ok(fr.outVal) = Nest("add", PyInt(0), fr.a0, Len(fr.a0))
                   /\ fr.outVal = PyInt(IntSum(fr.a0))
            /\ (Finished(fr) /\ fr.via = "prod") =>
                   /\ fr.st = "returned"
                   /\ Ok(fr.outVal) = Nest("mul", PyInt(1), fr.a0, Len(fr.a0))
                   /\ fr.outVal = PyInt(IntProd(fr.a0))

\* C4 witness: prod has returned -2 for [2, -1].
C4_Witness ==
    LET fr == frames["a"]
    IN  /\ fr.st = "returned"
        /\ fr.via = "prod"
        /\ fr.a0 = <<PyInt(2), PyInt(-1)>>
        /\ fr.outVal = PyInt(-2)

\* C5 as claimed: log(x) and log_back(x, d) both fail whenever x <= -EPS, for
\* every d, and log fails exactly when x + EPS <= 0.
C5_LogBackFailsBelowEps ==
    /\ (scalar.op \in {"log", "log_back"} /\ LeNegEps(scalar.x)) => scalar.out.exc # ""
    /\ scalar.op = "log" => (scalar.out.exc # "" <=> LeNegEps(scalar.x))

\* C5 as amended: log(x) fails with a domain error exactly when x + EPS <= 0 and
\* otherwise returns a value (log(0) is defined); log_back(x, d) fails, for every
\* d, exactly when x = 0, with a division by zero, and returns a value for every
\* other x, those with x <= -EPS included.
C5_LogDomain ==
    /\ scalar.op = "log" =>
           /\ scalar.out.exc = (IF LeNegEps(scalar.x) THEN "ValueError" ELSE "")
           /\ scalar.out.exc = "" => scalar.out.v.k # "none"
    /\ scalar.op = "log_back" =>
           /\ scalar.out.exc = (IF IsZero(scalar.x) THEN "ZeroDivisionError" ELSE "")
           /\ scalar.out.exc = "" => scalar.out.v.k # "none"

\* C5 witness: log_back has returned a value for an x <= -EPS.
C5_Witness ==
    /\ scalar.op = "log_back"
    /\ LeNegEps(scalar.x)
    /\ scalar.out.exc = ""
    /\ scalar.out.v.k = "num"

\* C6: inv(0) and inv_back(0, d) fail with a division by zero, and for every
\* x # 0 inv(x) and inv_back(x, d) return a value without error.
C6_InvFailsOnlyAtZero ==
    scalar.op \in {"inv", "inv_back"} =>
        scalar.out.exc = (IF IsZero(scalar.x) THEN "ZeroDivisionError" ELSE "")

\* C7: lt(x, y) is the number 1.0 if x < y and 0.0 otherwise, eq(x, y) is the
\* number 1.0 if x == y and 0.0 otherwise: a float, never a boolean.
C7_LtEqAreFloats ==
    /\ scalar.op = "lt" =>
           scalar.out = Ok(IF PyLt(scalar.x, scalar.y) THEN PyInt(1) ELSE PyInt(0))
    /\ scalar.op = "eq" =>
           scalar.out = Ok(IF PyEq(scalar.x, scalar.y) THEN PyInt(1) ELSE PyInt(0))

\* C8: max(x, y) is x if x > y and y otherwise (a tie gives y); relu(x) is
\* max(x, 0): 0 for every x <= 0, x for every x > 0, and never below 0.
C8_MaxRelu ==
    /\ scalar.op = "max" =>
           /\ scalar.out.exc = ""
           /\ PyGt(scalar.x, scalar.y) => scalar.out.v = scalar.x
           /\ ~PyGt(scalar.x, scalar.y) => scalar.out.v = scalar.y
    /\ scalar.op = "relu" =>
           /\ scalar.out = max(scalar.x, PyInt(0))
           /\ (PyLt(scalar.x, Zero) \/ PyEq(scalar.x, Zero)) => scalar.out.v = Zero
           /\ PyGt(scalar.x, Zero) => scalar.out.v = scalar.x
           /\ ~PyLt(scalar.out.v, Zero)

\* C8 witness: max was called on a tie of two different objects (True and 1) and
\* returned the second.
C8_Witness ==
    /\ scalar.op = "max"
    /\ PyEq(scalar.x, scalar.y)
    /\ scalar.x # scalar.y
    /\ scalar.out.v = scalar.y

\* C9: when the captured fn raises on element k, the call ends in that error
\* right there: the elements before k did not fail, fn was called k times and
\* never on an element after k, nothing is handed back, and the input lists are
\* as they were; a call that returns had no failing element.
C9_ErrorPropagates ==
    \A f \in FrameIds :
        LET fr == frames[f]
            cell == cells[fr.c]
            k == fr.i + 1
        IN  /\ fr.st = "raised" =>
                   /\ k <= Todo(cell, fr.a0, fr.b0)
                   /\ fr.exc # ""
                   /\ fr.exc = KthCall(cell, fr.a0, fr.b0, k).exc
                   /\ \A j \in 1..fr.i : KthCall(cell, fr.a0, fr.b0, j).exc = ""
                   /\ fr.ncalls = k
                   /\ fr.outSeq = <<>> /\ fr.outVal = None
                   /\ fr.l1 = fr.a0 /\ fr.l2 = fr.b0
            /\ fr.st \in {"loop", "returned"} =>
                   \A j \in 1..fr.i : KthCall(cell, fr.a0, fr.b0, j).exc = ""
            /\ fr.st = "returned" => fr.i = Todo(cell, fr.a0, fr.b0)

\* C9 witness: map(inv) has raised on a 0 that another element follows.
C9_Witness ==
    LET fr == frames["a"]
    IN  /\ fr.st = "raised"
        /\ cells[fr.c].kind = "map"
        /\ cells[fr.c].fn = "inv"
        /\ fr.exc = "ZeroDivisionError"
        /\ fr.i + 1 < Len(fr.a0)

\* What a finished call handed back is decided by its arguments and the captured
\* fn and start, and two calls of one closure on the same arguments agree.
CallsAreFunctions ==
    /\ \A f \in FrameIds :
           Finished(frames[f]) =>
               Outcome(frames[f]) = Denote(cells[frames[f].c], frames[f].a0, frames[f].b0)
    /\ \A f \in FrameIds, g \in FrameIds :
           ( /\ Finished(frames[f]) /\ Finished(frames[g])
             /\ frames[f].c = frames[g].c
             /\ frames[f].a0 = frames[g].a0 /\ frames[f].b0 = frames[g].b0 )
           => Outcome(frames[f]) = Outcome(frames[g])

\* No step changes the fn or the start a closure has captured.
CapturedStays ==
    \A c \in CellIds : (cells[c].kind # "" /\ cells'[c].kind # "") => cells'[c] = cells[c]

\* C10: the closures keep nothing between calls: however the calls interleave,
\* on one closure or on two, what a call hands back is decided by its arguments
\* and the captured fn and start, two calls of one closure on the same arguments
\* hand back the same, and the captured start is never modified.
C10_NoRetainedState == []CallsAreFunctions /\ [][CapturedStays]_vars

\* C10 witness: two calls of one reduce closure on the same non-empty list have
\* both returned.
C10_Witness ==
    /\ frames["a"].st = "returned" /\ frames["b"].st = "returned"
    /\ frames["a"].c = frames["b"].c
    /\ cells[frames["a"].c].kind = "reduce"
    /\ frames["a"].a0 = frames["b"].a0
    /\ Len(frames["a"].a0) = 1

====
